---- MODULE Spec2Model ----
(***************************************************************************)
(* Model of the schema-driven generator (generate_model.py) and of the     *)
(* registry reconciler (update_main_file.py).                              *)
(*                                                                         *)
(* Five specifications share the variables below:                          *)
(*   SpecGen    one schema through main(): load, DataModel, Contract,      *)
(*              ServiceImpl, on the shared (mutable) schema dictionary;    *)
(*   SpecOrder  the same three emitters, called in any order;              *)
(*   SpecBatch  the __main__ driver: the batch loop, protoc, reconciler;   *)
(*   SpecRecon  update_main_file.py on a registry text;                    *)
(*   SpecSvc    the run-time behaviour of the generated service methods.   *)
(***************************************************************************)
EXTENDS Integers, Sequences, FiniteSets, TLC

VARIABLES
    \* ---- generate_model.py, one schema (SpecGen)
    schemaFile,     \* the schema document on disk: [properties, required]
    schema,         \* the dict load_schema returned; the emitters mutate it
    gpc,            \* position in main(schema_name)
    modelFile,      \* models/<name>.go
    protoFile,      \* proto/<name>.proto
    serviceFile,    \* services/<name>_service_impl.go
    \* ---- generate_model.py, __main__ (SpecBatch)
    bpc,            \* position in the __main__ block
    argv,           \* "all" (no argument) or the schema name given
    listing,        \* os.listdir('schemas/') in the order it is returned:
                    \* entries [name, file], file one of "ok" (a schema that
                    \* loads), "unreadable" (json.load raises), "noprops"
                    \* (an object without "properties"), "other" (a name
                    \* that is not <x>_schema.json)
    pos,            \* index in listing of the next entry
    cur,            \* the schema main() is working on ("" when none)
    modelsDir, protoDir, servicesDir,   \* schema names with an artifact there
    protoc,         \* "none", then how the protoc step ended
    exitStatus,     \* -1 while running, then the process exit status
    reconStarted,   \* update_main_file.py has been started
    \* ---- update_main_file.py (SpecRecon)
    registry,       \* the text of cmd/main.go, as a sequence of tokens
    before,         \* the text the last run read
    models,         \* find_model_structs()
    services,       \* find_service_implementations()
    runs,           \* runs of update_main_file.py so far
    written,        \* the last run wrote cmd/main.go
    \* ---- generated service (SpecSvc)
    svcSchema,      \* the schema name the service was generated for
    db,             \* persistence: id -> version of the row (0: no such row)
    cache,          \* cache key -> entry [present, id, ver, ttl]
    last            \* what the last service call did and returned

genVars   == <<schemaFile, schema, gpc, modelFile, protoFile, serviceFile>>
batchVars == <<bpc, argv, listing, pos, cur, modelsDir, protoDir, servicesDir,
               protoc, exitStatus, reconStarted>>
reconVars == <<registry, before, models, services, runs, written>>
svcVars   == <<svcSchema, db, cache, last>>
vars      == <<genVars, batchVars, reconVars, svcVars>>

(***************************************************************************)
(* Field names are sequences of one-character strings, so that             *)
(* convert_field_name is computed as the code computes it.                 *)
(***************************************************************************)
N_id         == <<"i", "d">>
N_created_at == <<"c", "r", "e", "a", "t", "e", "d", "_", "a", "t">>
N_updated_at == <<"u", "p", "d", "a", "t", "e", "d", "_", "a", "t">>
N_title      == <<"t", "i", "t", "l", "e">>
N_tags       == <<"t", "a", "g", "s">>
N__id        == <<"_", "i", "d">>

\* str.upper() / str.lower() on the characters the field names use
Upper(c) ==
    CASE c = "a" -> "A" [] c = "c" -> "C" [] c = "d" -> "D" [] c = "e" -> "E"
      [] c = "g" -> "G" [] c = "i" -> "I" [] c = "l" -> "L" [] c = "p" -> "P"
      [] c = "r" -> "R" [] c = "s" -> "S" [] c = "t" -> "T" [] c = "u" -> "U"
      [] OTHER -> c

Lower(c) ==
    CASE c = "A" -> "a" [] c = "C" -> "c" [] c = "D" -> "d" [] c = "E" -> "e"
      [] c = "G" -> "g" [] c = "I" -> "i" [] c = "L" -> "l" [] c = "P" -> "p"
      [] c = "R" -> "r" [] c = "S" -> "s" [] c = "T" -> "t" [] c = "U" -> "u"
      [] OTHER -> c

\* str.capitalize(): first character upper-cased, the rest lower-cased
Capitalize(part) ==
    [i \in 1..Len(part) |-> IF i = 1 THEN Upper(part[i]) ELSE Lower(part[i])]

\* field.split('_'), each part capitalized, joined
RECURSIVE CamelFrom(_, _, _)
CamelFrom(field, i, part) ==
    IF i > Len(field) THEN Capitalize(part)
    ELSE IF field[i] = "_"
         THEN Capitalize(part) \o CamelFrom(field, i + 1, <<>>)
         ELSE CamelFrom(field, i + 1, Append(part, field[i]))

convert_field_name(field) ==
    LET camel_cased == CamelFrom(field, 1, <<>>)
    IN  IF camel_cased = <<"I", "d">> THEN <<"I", "D">> ELSE camel_cased

(***************************************************************************)
(* Schemas.  A field spec keeps the keys the emitters read: "type",        *)
(* "format" ("" when absent), "items"."type" ("" when there is no "items") *)
(* and "uniqueItems".                                                      *)
(***************************************************************************)
FieldSpec(t, f, it, u) == [type |-> t, format |-> f, items |-> it, uniqueItems |-> u]

DateTimeSpec == FieldSpec("string", "date-time", "", FALSE)
IdSpec       == FieldSpec("integer", "", "", FALSE)

ScalarSpecs ==
    { FieldSpec("string", "", "", FALSE),
      FieldSpec("integer", "", "", FALSE),
      FieldSpec("number", "", "", FALSE),
      FieldSpec("boolean", "", "", FALSE),
      FieldSpec("object", "", "", FALSE),
      DateTimeSpec }

ArraySpecs ==
    { FieldSpec("array", "", "", FALSE),
      FieldSpec("array", "", "string", TRUE),
      FieldSpec("array", "", "string", FALSE),
      FieldSpec("array", "", "integer", TRUE),
      FieldSpec("array", "", "number", FALSE),
      FieldSpec("array", "", "boolean", FALSE) }

\* the specs a schema document gives a field of that name: the role fields are
\* declared as the generator would inject them or as plain strings, "title"
\* takes the scalar shapes and "tags" the array shapes
SpecsOf(name) ==
    IF name = N_id THEN {IdSpec, FieldSpec("string", "", "", FALSE)}
    ELSE IF name \in {N_created_at, N_updated_at}
         THEN {DateTimeSpec, FieldSpec("string", "", "", FALSE)}
         ELSE IF name = N_tags THEN ArraySpecs ELSE ScalarSpecs

NamePool == {N_id, N_created_at, N_updated_at, N_title, N_tags}

MaxFields == 3

Keys(properties) == {properties[i].name : i \in 1..Len(properties)}

\* the "properties" objects of at most n fields: ordered, keys distinct
RECURSIVE PropertyLists(_)
PropertyLists(n) ==
    IF n = 0 THEN {<<>>}
    ELSE LET shorter == PropertyLists(n - 1)
             Items(p) == UNION { {[name |-> nm, specs |-> sp] : sp \in SpecsOf(nm)} :
                                 nm \in NamePool \ Keys(p) }
         IN  shorter \cup
             UNION { {Append(p, item) : item \in Items(p)} :
                     p \in {q \in shorter : Len(q) = n - 1} }

RequiredChoices == {{}, {N_title}, {N_id, N_tags}}

SchemaDocs ==
    { [properties |-> p, required |-> r] :
        p \in PropertyLists(MaxFields),
        r \in RequiredChoices }

NoSchema == [properties |-> <<>>, required |-> {}]

(***************************************************************************)
(* generate_go_model                                                       *)
(***************************************************************************)
Has(properties, name) == name \in Keys(properties)

\* the module-level table
type_mapping ==
    [t \in {"string", "integer", "boolean", "number", "date-time"} |->
        CASE t = "string" -> "string" [] t = "integer" -> "uint64"
          [] t = "boolean" -> "bool" [] t = "number" -> "float64"
          [] t = "date-time" -> "time.Time"]

\* the table generate_go_model defines for itself
local_type_mapping ==
    [t \in {"string", "integer", "number", "boolean", "date-time"} |->
        CASE t = "string" -> "string" [] t = "integer" -> "uint64"
          [] t = "number" -> "float64" [] t = "boolean" -> "bool"
          [] t = "date-time" -> "time.Time"]

\* dict.get(key, default)
Get(mapping, key, default) ==
    IF key \in DOMAIN mapping THEN mapping[key] ELSE default

\* the injection without its "not in properties" tests
GoInjectAlways(properties) ==
    Append(Append(Append(properties,
        [name |-> N_created_at, specs |-> DateTimeSpec]),
        [name |-> N_updated_at, specs |-> DateTimeSpec]),
        [name |-> N_id, specs |-> IdSpec])

\* the injection without its last step
GoInjectNoId(properties) ==
    LET p1 == IF Has(properties, N_created_at) THEN properties
              ELSE Append(properties, [name |-> N_created_at, specs |-> DateTimeSpec])
    IN  IF Has(p1, N_updated_at) THEN p1
        ELSE Append(p1, [name |-> N_updated_at, specs |-> DateTimeSpec])

\* "if <role> not in properties: properties[<role>] = ..." in the code's order
GoInject(properties) ==
    LET p1 == IF Has(properties, N_created_at) THEN properties
              ELSE Append(properties, [name |-> N_created_at, specs |-> DateTimeSpec])
        p2 == IF Has(p1, N_updated_at) THEN p1
              ELSE Append(p1, [name |-> N_updated_at, specs |-> DateTimeSpec])
    IN  IF Has(p2, N_id) THEN p2
        ELSE Append(p2, [name |-> N_id, specs |-> IdSpec])

\* A Go type: a named scalar, a slice of one, or a generated custom type
\* (custom holds its name, <<>> when the type is not a custom one).
GoScalar(b)  == [base |-> b, slice |-> FALSE, custom |-> <<>>]
GoSlice(b)   == [base |-> b, slice |-> TRUE, custom |-> <<>>]
GoCustom(nm) == [base |-> "", slice |-> FALSE, custom |-> nm]

IsCustomSpec(specs) ==
    /\ specs.format # "date-time"
    /\ specs.type = "array" /\ specs.items # ""
    /\ specs.items = "string" /\ specs.uniqueItems

GoFieldType(field, specs) ==
    IF specs.format = "date-time" THEN GoScalar(local_type_mapping["date-time"])
    ELSE IF specs.type = "array" /\ specs.items # ""
         THEN IF specs.items = "string" /\ specs.uniqueItems
              THEN GoCustom(convert_field_name(field))
              ELSE GoSlice(Get(local_type_mapping, specs.items, "string"))
         ELSE GoScalar(Get(local_type_mapping, specs.type, "interface{}"))

\* custom_types (its keys, in insertion order) after the loop has processed
\* the first i fields
RECURSIVE CustomTypesUpTo(_, _)
CustomTypesUpTo(properties, i) ==
    IF i = 0 THEN <<>>
    ELSE LET sofar == CustomTypesUpTo(properties, i - 1)
             f     == properties[i]
             nm    == convert_field_name(f.name)
         IN  IF IsCustomSpec(f.specs) /\ nm \notin {sofar[k] : k \in 1..Len(sofar)}
             THEN Append(sofar, nm)
             ELSE sofar

InCustomTypes(field, properties, i) ==
    LET custom_types == CustomTypesUpTo(properties, i)
    IN  field \in {custom_types[k] : k \in 1..Len(custom_types)}

GormTags(properties, required_fields, i) ==
    LET field      == properties[i].name
        field_type == GoFieldType(field, properties[i].specs)
    IN  (IF field \in required_fields THEN <<"not null">> ELSE <<>>) \o
        (IF field = N_id THEN <<"primaryKey">>
         ELSE IF field = N_created_at THEN <<"autoCreateTime;<-:create">>
         ELSE IF field = N_updated_at THEN <<"autoUpdateTime">>
         ELSE IF field_type.slice \/ InCustomTypes(field, properties, i)
              THEN <<"type:json">>
              ELSE <<>>)

\* one struct field: identifier, type, json key, gorm tags, bson key
\* (the validate tag, built from constraints no property here reads, is left out)
GoField(properties, required_fields, i) ==
    LET field == properties[i].name
    IN  [ident |-> convert_field_name(field),
         type  |-> GoFieldType(field, properties[i].specs),
         json  |-> field,
         gorm  |-> GormTags(properties, required_fields, i),
         bson  |-> IF field = N_id THEN N__id ELSE field]

NoModelFile == [written |-> FALSE, imports |-> {}, fields |-> <<>>, customTypes |-> <<>>]

\* the file generate_go_model writes for the schema dictionary it is handed
GoModelContent(given, required_fields) ==
    LET properties == GoInject(given)
    IN  [written     |-> TRUE,
         imports     |-> {"time"},
         fields      |-> [i \in 1..Len(properties) |->
                             GoField(properties, required_fields, i)],
         customTypes |-> CustomTypesUpTo(properties, Len(properties))]

generate_go_model ==
    /\ schema' = [schema EXCEPT !.properties = GoInject(schema.properties)]
    /\ modelFile' = GoModelContent(schema.properties, schema.required)

(***************************************************************************)
(* generate_proto_file                                                     *)
(***************************************************************************)
ProtoInject(properties) ==
    LET p1 == IF Has(properties, N_created_at) THEN properties
              ELSE Append(properties, [name |-> N_created_at, specs |-> DateTimeSpec])
        p2 == IF Has(p1, N_updated_at) THEN p1
              ELSE Append(p1, [name |-> N_updated_at, specs |-> DateTimeSpec])
    IN  IF Has(p2, N_id) THEN p2
        ELSE Append(p2, [name |-> N_id, specs |-> IdSpec])

\* sorted(properties.items(), key=lambda item: item[0] not in required_fields):
\* a stable sort on a boolean key, False (required) first
SortedFields(properties, required_fields) ==
    SelectSeq(properties, LAMBDA f : f.name \in required_fields) \o
    SelectSeq(properties, LAMBDA f : f.name \notin required_fields)

ProtoType(specs) ==
    IF specs.format = "date-time"
    THEN [repeated |-> FALSE, base |-> "google.protobuf.Timestamp"]
    ELSE IF specs.type = "string" THEN [repeated |-> FALSE, base |-> "string"]
    ELSE IF specs.type = "integer" THEN [repeated |-> FALSE, base |-> "uint64"]
    ELSE IF specs.type = "boolean" THEN [repeated |-> FALSE, base |-> "bool"]
    ELSE IF specs.type = "number" THEN [repeated |-> FALSE, base |-> "double"]
    ELSE IF specs.type = "array" /\ specs.items # ""
         THEN [repeated |-> TRUE, base |-> Get(type_mapping, specs.items, "string")]
         ELSE [repeated |-> FALSE, base |-> "string"]

NoProtoFile == [written |-> FALSE, timestampImport |-> FALSE, fields |-> <<>>]

\* the file generate_proto_file writes for the schema dictionary it is handed:
\* needs_timestamp_import is computed on the dictionary as handed over, the
\* fields on the dictionary after the injection
ProtoContent(given, required_fields) ==
    LET needs_timestamp_import ==
            \E i \in 1..Len(given) : given[i].specs.format = "date-time"
        properties    == ProtoInject(given)
        sorted_fields == SortedFields(properties, required_fields)
    IN  [written         |-> TRUE,
         timestampImport |-> needs_timestamp_import,
         fields          |-> [i \in 1..Len(sorted_fields) |->
                                [type   |-> ProtoType(sorted_fields[i].specs),
                                 ident  |-> convert_field_name(sorted_fields[i].name),
                                 number |-> i]]]

generate_proto_file ==
    /\ schema' = [schema EXCEPT !.properties = ProtoInject(schema.properties)]
    /\ protoFile' = ProtoContent(schema.properties, schema.required)

(***************************************************************************)
(* generate_service_impl: the field-by-field assignments of Create, Get    *)
(* and Update (the three loops read the same schema["properties"])         *)
(***************************************************************************)
NoServiceFile == [written |-> FALSE, assigns |-> <<>>]

\* the file generate_service_impl writes for the schema dictionary it is
\* handed: it reads the dictionary as it is and injects nothing
ServiceContent(given) ==
    [written |-> TRUE,
     assigns |-> [i \in 1..Len(given) |->
                    [ident   |-> convert_field_name(given[i].name),
                     adapter |-> given[i].specs.format = "date-time"]]]

generate_service_impl ==
    /\ serviceFile' = ServiceContent(schema.properties)
    /\ UNCHANGED schema

(***************************************************************************)
(* main(schema_name)                                                       *)
(***************************************************************************)
GenLoad ==
    /\ gpc = "load"
    /\ schema' = schemaFile
    /\ gpc' = "go"
    /\ UNCHANGED <<schemaFile, modelFile, protoFile, serviceFile>>

GenGoModel ==
    /\ gpc = "go"
    /\ generate_go_model
    /\ gpc' = "proto"
    /\ UNCHANGED <<schemaFile, protoFile, serviceFile>>

GenProtoFile ==
    /\ gpc = "proto"
    /\ generate_proto_file
    /\ gpc' = "service"
    /\ UNCHANGED <<schemaFile, modelFile, serviceFile>>

GenServiceImpl ==
    /\ gpc = "service"
    /\ generate_service_impl
    /\ gpc' = "done"
    /\ UNCHANGED <<schemaFile, modelFile, protoFile>>


(***************************************************************************)
(* update_main_file.py.  The registry text is a sequence of tokens whose   *)
(* concatenation is the file's content.  The token alphabet is prefix-free *)
(* (no token is a prefix of another), so two token sequences are equal     *)
(* exactly when the texts are; the literals of the two patterns and the    *)
(* closing brace occur only as whole tokens, so a match of either pattern  *)
(* starts and ends on token boundaries.                                    *)
(***************************************************************************)
SP4 == "    "
NL  == "\n"
CLOSE == "}"
MIG_START == "// Run GORM auto-migration for your models here"
MIG_END   == "log.Println(\"Auto migration completed successfully.\")"
SVC_START == "func GetAllServices(ormLayer *orm.ORM) []RegisterableService {"
\* the same function with another parameter name: ".+?" matches it too
SVC_START_O == "func GetAllServices(o *orm.ORM) []RegisterableService {"
\* anchors that have drifted: neither pattern matches them
MIG_DRIFT == "// Run GORM auto-migration here"
SVC_DRIFT == "func AllServices(ormLayer *orm.ORM) []RegisterableService {"

\* r"// Run GORM ... here(.|\s)*?log.Println\(\"Auto migration ...\.\"\)"
MigPattern == [start |-> {MIG_START}, end |-> {MIG_END}]
\* r"func GetAllServices\(.+?\) \[\]RegisterableService \{(.|\s)*?\}"
SvcPattern == [start |-> {SVC_START, SVC_START_O}, end |-> {CLOSE}]

\* the least index >= from of a token of the set, 0 when there is none
RECURSIVE FirstAt(_, _, _)
FirstAt(text, from, tokens) ==
    IF from > Len(text) THEN 0
    ELSE IF text[from] \in tokens THEN from
         ELSE FirstAt(text, from + 1, tokens)

\* the greatest index >= from of a token of the set, 0 when there is none
RECURSIVE LastAt(_, _, _)
LastAt(text, from, tokens) ==
    LET later == IF from > Len(text) THEN 0 ELSE LastAt(text, from + 1, tokens)
    IN  IF later # 0 THEN later
        ELSE IF from <= Len(text) /\ text[from] \in tokens THEN from ELSE 0

\* re.sub with a greedy "(.|\s)*" in place of the lazy one
RECURSIVE ReSubGreedyFrom(_, _, _, _)
ReSubGreedyFrom(text, i, pattern, repl) ==
    IF i > Len(text) THEN <<>>
    ELSE LET j == IF text[i] \in pattern.start
                  THEN LastAt(text, i + 1, pattern.end) ELSE 0
         IN  IF j # 0
             THEN repl \o ReSubGreedyFrom(text, j + 1, pattern, repl)
             ELSE <<text[i]>> \o ReSubGreedyFrom(text, i + 1, pattern, repl)

\* re.sub(pattern, repl, content): every non-overlapping match, leftmost
\* first, each from a start literal to the first end literal after it
RECURSIVE ReSubFrom(_, _, _, _)
ReSubFrom(text, i, pattern, repl) ==
    IF i > Len(text) THEN <<>>
    ELSE LET j == IF text[i] \in pattern.start
                  THEN FirstAt(text, i + 1, pattern.end) ELSE 0
         IN  IF j # 0
             THEN repl \o ReSubFrom(text, j + 1, pattern, repl)
             ELSE <<text[i]>> \o ReSubFrom(text, i + 1, pattern, repl)

\* "\n        ".join(instances), each instance a token sequence
RECURSIVE JoinLines(_)
JoinLines(instances) ==
    IF instances = <<>> THEN <<>>
    ELSE IF Len(instances) = 1 THEN instances[1]
         ELSE instances[1] \o <<NL, SP4, SP4>> \o JoinLines(Tail(instances))

\* "&models." + model + "{},"
ModelInstance(model) == <<"&models." \o model \o "{", CLOSE, ",">>
\* "services.New" + service + "(ormLayer),"
ServiceInstance(service) == <<"services.New" \o service \o "(ormLayer),">>

MigrateHead ==
    <<SP4, MIG_START, NL,
      SP4, "db := sqlAdapter.GetDB()", NL,
      SP4, "err = db.AutoMigrate(", NL,
      SP4, SP4>>

MigrateTail ==
    <<NL,
      SP4, ")", NL,
      SP4, "if err != nil {", NL,
      SP4, SP4, "log.Fatalf(\"Failed to auto migrate models: %v\", err)", NL,
      SP4, CLOSE, NL,
      SP4, MIG_END>>

\* new_auto_migrate_content with one model only
FirstModelOnly(found) ==
    MigrateHead
    \o JoinLines([k \in 1..(IF found = <<>> THEN 0 ELSE 1) |-> ModelInstance(found[k])])
    \o MigrateTail

\* new_auto_migrate_content
new_auto_migrate_content(found) ==
    MigrateHead
    \o JoinLines([k \in 1..Len(found) |-> ModelInstance(found[k])])
    \o MigrateTail

\* new_function_content
new_function_content(found) ==
    <<SVC_START, NL,
      SP4, "return []RegisterableService{", NL,
      SP4, SP4>>
    \o JoinLines([k \in 1..Len(found) |-> ServiceInstance(found[k])])
    \o <<NL, SP4, CLOSE>>

\* the update that gives up when the first pattern does not match
UpdateOrGiveUp(content, found_models, found_services) ==
    IF \A i \in 1..Len(content) :
         ~(content[i] \in MigPattern.start /\ FirstAt(content, i + 1, MigPattern.end) # 0)
    THEN content
    ELSE ReSubFrom(ReSubFrom(content, 1, MigPattern, new_auto_migrate_content(found_models)),
                   1, SvcPattern, new_function_content(found_services))

ReSubGreedy(pattern, repl, content) == ReSubGreedyFrom(content, 1, pattern, repl)

ReSub(pattern, repl, content) == ReSubFrom(content, 1, pattern, repl)

\* the text update_main_go_file writes back
update_main_go_file(content, found_models, found_services) ==
    ReSub(SvcPattern, new_function_content(found_services),
          ReSub(MigPattern, new_auto_migrate_content(found_models), content))

(***************************************************************************)
(* The parts of the state a specification does not use stay as they are    *)
(* here.                                                                   *)
(***************************************************************************)
GenIdle ==
    /\ schemaFile = NoSchema /\ schema = NoSchema /\ gpc = "idle"
    /\ modelFile = NoModelFile /\ protoFile = NoProtoFile
    /\ serviceFile = NoServiceFile

BatchIdle ==
    /\ bpc = "idle" /\ argv = "all" /\ listing = <<>> /\ pos = 1 /\ cur = ""
    /\ modelsDir = {} /\ protoDir = {} /\ servicesDir = {}
    /\ protoc = "none" /\ exitStatus = -1 /\ reconStarted = FALSE

ReconIdle ==
    /\ registry = <<>> /\ before = <<>> /\ models = <<>> /\ services = <<>>
    /\ runs = 0 /\ written = FALSE

SvcIdle ==
    /\ svcSchema = "" /\ db = <<>> /\ cache = <<>> /\ last = [op |-> "none"]

(***************************************************************************)
(* SpecGen: main(schema_name) on one schema document                       *)
(***************************************************************************)
InitGen ==
    /\ schemaFile \in SchemaDocs
    /\ schema = NoSchema
    /\ gpc = "load"
    /\ modelFile = NoModelFile /\ protoFile = NoProtoFile
    /\ serviceFile = NoServiceFile
    /\ BatchIdle /\ ReconIdle /\ SvcIdle

NextGen ==
    \/ GenLoad /\ UNCHANGED <<batchVars, reconVars, svcVars>>
    \/ GenGoModel /\ UNCHANGED <<batchVars, reconVars, svcVars>>
    \/ GenProtoFile /\ UNCHANGED <<batchVars, reconVars, svcVars>>
    \/ GenServiceImpl /\ UNCHANGED <<batchVars, reconVars, svcVars>>

SpecGen == InitGen /\ [][NextGen]_vars

(***************************************************************************)
(* Properties of SpecGen                                                   *)
(***************************************************************************)
InSeq(x, seq) == \E k \in 1..Len(seq) : seq[k] = x

RoleNames == {N_id, N_created_at, N_updated_at}

\* the fields the generator has to add to the schema document
MissingRoles == RoleNames \ Keys(schemaFile.properties)

\* C1: once an artifact is emitted, its field list holds exactly one
\* primary-key, one created-at and one updated-at field; the list is the
\* document's fields plus the missing role fields, none twice; and injecting
\* again into the injected list adds nothing.
C1_ExactlyOneOfEachRole ==
    /\ modelFile.written =>
         /\ Len(SelectSeq(modelFile.fields, LAMBDA f : InSeq("primaryKey", f.gorm))) = 1
         /\ Len(SelectSeq(modelFile.fields, LAMBDA f : InSeq("autoCreateTime;<-:create", f.gorm))) = 1
         /\ Len(SelectSeq(modelFile.fields, LAMBDA f : InSeq("autoUpdateTime", f.gorm))) = 1
         /\ \A r \in RoleNames : Len(SelectSeq(modelFile.fields, LAMBDA f : f.json = r)) = 1
         /\ Len(modelFile.fields) =
              Len(schemaFile.properties) + Cardinality(MissingRoles)
         /\ GoInject(schema.properties) = schema.properties
    /\ protoFile.written =>
         /\ \A r \in RoleNames :
              Len(SelectSeq(protoFile.fields, LAMBDA f : f.ident = convert_field_name(r))) = 1
         /\ Len(protoFile.fields) =
              Len(schemaFile.properties) + Cardinality(MissingRoles)
         /\ ProtoInject(schema.properties) = schema.properties

\* a schema that declares some of the role fields, not all, emitted in full
C1_Witness ==
    /\ gpc = "done" /\ modelFile.written /\ protoFile.written
    /\ Has(schemaFile.properties, N_id)
    /\ Has(schemaFile.properties, N_updated_at)
    /\ ~Has(schemaFile.properties, N_created_at)

Idents(fields) == {fields[k].ident : k \in 1..Len(fields)}

\* C2: the DataModel record and the Contract's main message carry the same
\* set of field identifiers; an array-of-unique-strings field has the same
\* identifier in both, as a custom container type in the DataModel and as a
\* flat repeated string in the Contract.
C2_SameIdentifiers ==
    (modelFile.written /\ protoFile.written) =>
        /\ Idents(modelFile.fields) = Idents(protoFile.fields)
        /\ Idents(modelFile.fields) =
             {convert_field_name(n) : n \in Keys(schemaFile.properties) \cup RoleNames}
        /\ \A i \in 1..Len(schemaFile.properties) :
             LET f  == schemaFile.properties[i]
                 id == convert_field_name(f.name)
             IN  IsCustomSpec(f.specs) =>
                   /\ \E k \in 1..Len(modelFile.fields) :
                        /\ modelFile.fields[k].ident = id
                        /\ modelFile.fields[k].type = GoCustom(id)
                   /\ \E k \in 1..Len(protoFile.fields) :
                        /\ protoFile.fields[k].ident = id
                        /\ protoFile.fields[k].type =
                             [repeated |-> TRUE, base |-> "string"]

\* a schema with an array-of-unique-strings field and no declared id
C2_Witness ==
    /\ gpc = "done" /\ modelFile.written /\ protoFile.written
    /\ ~Has(schemaFile.properties, N_id)
    /\ \E i \in 1..Len(schemaFile.properties) :
         IsCustomSpec(schemaFile.properties[i].specs)

\* C11: in the DataModel, a field carries the persistence attribute
\* "type:json" exactly when it is none of the three role fields and its
\* resolved type is a plain slice or a generated custom container type.
C11_BlobStorageAttribute ==
    modelFile.written =>
        \A k \in 1..Len(modelFile.fields) :
            LET f == modelFile.fields[k]
            IN  InSeq("type:json", f.gorm) <=>
                  /\ f.json \notin RoleNames
                  /\ f.type.slice \/ f.type.custom # <<>>

\* C12: in the Contract, an array field with an item spec is a flat repeated
\* field whose element type is the type the Contract gives a scalar field of
\* the item kind, for every item kind, with or without uniqueItems.
C12_FlatRepeatedOfMappedItem ==
    protoFile.written =>
        \A i \in 1..Len(schema.properties) :
            LET f == schema.properties[i]
            IN  (f.specs.type = "array" /\ f.specs.items # ""
                 /\ f.specs.format # "date-time") =>
                    \E k \in 1..Len(protoFile.fields) :
                        /\ protoFile.fields[k].ident = convert_field_name(f.name)
                        /\ protoFile.fields[k].type =
                             [repeated |-> TRUE,
                              base |-> ProtoType(FieldSpec(f.specs.items, "", "", FALSE)).base]

(***************************************************************************)
(* SpecOrder: the three emitters of one schema, each called once on the    *)
(* dictionary load_schema returned, in any order (main() is the order      *)
(* DataModel, Contract, ServiceImpl)                                       *)
(***************************************************************************)
OrderLoad ==
    /\ gpc = "load"
    /\ schema' = schemaFile
    /\ gpc' = "emit"
    /\ UNCHANGED <<schemaFile, modelFile, protoFile, serviceFile>>

OrderGoModel ==
    /\ gpc = "emit" /\ ~modelFile.written
    /\ generate_go_model
    /\ UNCHANGED <<schemaFile, gpc, protoFile, serviceFile>>

OrderProtoFile ==
    /\ gpc = "emit" /\ ~protoFile.written
    /\ generate_proto_file
    /\ UNCHANGED <<schemaFile, gpc, modelFile, serviceFile>>

OrderServiceImpl ==
    /\ gpc = "emit" /\ ~serviceFile.written
    /\ generate_service_impl
    /\ UNCHANGED <<schemaFile, gpc, modelFile, protoFile>>

InitOrder == InitGen

NextOrder ==
    \/ OrderLoad /\ UNCHANGED <<batchVars, reconVars, svcVars>>
    \/ OrderGoModel /\ UNCHANGED <<batchVars, reconVars, svcVars>>
    \/ OrderProtoFile /\ UNCHANGED <<batchVars, reconVars, svcVars>>
    \/ OrderServiceImpl /\ UNCHANGED <<batchVars, reconVars, svcVars>>

SpecOrder == InitOrder /\ [][NextOrder]_vars

\* C13: whatever the order in which the three emitters run on the freshly
\* loaded schema, each artifact has the content it has when the emitters run
\* in main()'s order (DataModel on the loaded dictionary, then Contract and
\* ServiceImpl on the dictionary the DataModel emitter left): the order does
\* not show in any artifact.
C13_OrderIndependent ==
    LET after_go == GoInject(schemaFile.properties)
    IN  /\ modelFile.written =>
             modelFile = GoModelContent(schemaFile.properties, schemaFile.required)
        /\ protoFile.written =>
             protoFile = ProtoContent(after_go, schemaFile.required)
        /\ serviceFile.written =>
             serviceFile = ServiceContent(after_go)

(***************************************************************************)
(* SpecRecon: update_main_file.py run (and run again) on a registry        *)
(***************************************************************************)
MaxRuns     == 2
MaxModels   == 2
MaxServices == 1

ModelNames   == {"Article", "Tag"}
ServiceNames == {"ArticleServiceServerImpl"}

\* the sequences of at most n names: what a directory scan may return
RECURSIVE Found(_, _)
Found(names, n) ==
    IF n = 0 THEN {<<>>}
    ELSE LET shorter == Found(names, n - 1)
         IN  shorter \cup {Append(f, nm) : f \in {g \in shorter : Len(g) = n - 1},
                                           nm \in names}

\* text around the two regions
PreTexts  == { <<"package main", NL, SP4>>,
               <<"func main() {", NL, SP4, "x := 1", NL, SP4>> }
MidTexts  == { <<NL, CLOSE, NL>>,
               <<NL, SP4, "y := 2", NL, CLOSE, NL>> }
PostTexts == { <<NL, CLOSE, NL>>,
               <<NL, CLOSE, NL, "// tail">> }

\* the migration block as a registry may hold it: none, with a drifted
\* start comment, without the closing log statement, empty, or as a former
\* run generated it
MigBlocks ==
    { <<>>,
      <<MIG_DRIFT, NL, SP4, MIG_END>>,
      <<MIG_START, NL, SP4, "db := sqlAdapter.GetDB()">>,
      <<MIG_START, NL, SP4, MIG_END>>,
      Tail(new_auto_migrate_content(<<"Old">>)) }

\* the factory function as a registry may hold it: none, renamed, as a
\* former run generated it, with another parameter name, or edited by hand
\* with an element that has braces of its own
SvcBlocks ==
    { <<>>,
      <<SVC_DRIFT, NL, SP4, "return []RegisterableService{", NL, SP4, CLOSE>>,
      new_function_content(<<"OldServiceServerImpl">>),
      <<SVC_START_O, NL, SP4, "return []RegisterableService{", NL, SP4, CLOSE>>,
      <<SVC_START, NL, SP4, "return []RegisterableService{", NL,
        SP4, SP4, "services.NewCustom(ormLayer, Config{", CLOSE, ".Build()),", NL,
        SP4, CLOSE>> }

Registries ==
    { pre \o a \o mid \o b \o post :
        pre \in PreTexts, mid \in MidTexts, post \in PostTexts,
        a \in MigBlocks, b \in SvcBlocks }
    \cup
    { pre \o b \o mid \o a \o post :
        pre \in PreTexts, mid \in MidTexts, post \in PostTexts,
        a \in MigBlocks, b \in SvcBlocks }

InitRecon ==
    /\ registry \in Registries
    /\ before = <<>>
    /\ models \in Found(ModelNames, MaxModels)
    /\ services \in Found(ServiceNames, MaxServices)
    /\ runs = 0
    /\ written = FALSE
    /\ GenIdle /\ BatchIdle /\ SvcIdle

\* main() of update_main_file.py: scan, then update unless nothing was found
Reconcile ==
    /\ runs < MaxRuns
    /\ runs' = runs + 1
    /\ before' = registry
    /\ IF models # <<>> \/ services # <<>>
       THEN /\ registry' = update_main_go_file(registry, models, services)
            /\ written' = TRUE
       ELSE /\ registry' = registry
            /\ written' = FALSE
    /\ UNCHANGED <<models, services>>

NextRecon == Reconcile /\ UNCHANGED <<genVars, batchVars, svcVars>>

SpecRecon == InitRecon /\ [][NextRecon]_vars

(***************************************************************************)
(* Properties of SpecRecon                                                 *)
(***************************************************************************)
Tokens(text) == {text[i] : i \in 1..Len(text)}

\* the pattern occurs in the text: a start literal with an end literal after
Matches(text, pattern) ==
    \E i \in 1..Len(text) : \E j \in (i + 1)..Len(text) :
        text[i] \in pattern.start /\ text[j] \in pattern.end

\* the anchor-delimited region: from the first start literal that has an end
\* literal after it, to the first end literal after that start
RegionLo(text, pattern) ==
    CHOOSE i \in 1..Len(text) :
        /\ text[i] \in pattern.start
        /\ \E j \in (i + 1)..Len(text) : text[j] \in pattern.end
        /\ \A k \in 1..(i - 1) :
             ~(text[k] \in pattern.start
               /\ \E j \in (k + 1)..Len(text) : text[j] \in pattern.end)

RegionHi(text, pattern) ==
    CHOOSE j \in (RegionLo(text, pattern) + 1)..Len(text) :
        /\ text[j] \in pattern.end
        /\ \A k \in (RegionLo(text, pattern) + 1)..(j - 1) : text[k] \notin pattern.end

Region(text, pattern) ==
    SubSeq(text, RegionLo(text, pattern), RegionHi(text, pattern))

\* the entries a region lists: reference-construction lines, constructor
\* calls, and what is left of a hand-written entry
IsModelRef(tok) == tok \in {ModelInstance(n)[1] : n \in ModelNames \cup {"Old"}}
IsServiceCall(tok) ==
    \/ tok \in {ServiceInstance(n)[1] : n \in ServiceNames \cup {"OldServiceServerImpl"}}
    \/ tok \in {"services.NewCustom(ormLayer, Config{", ".Build()),"}

ModelRefs(text)    == SelectSeq(text, IsModelRef)
ServiceCalls(text) == SelectSeq(text, IsServiceCall)

WantedRefs  == [k \in 1..Len(models) |-> ModelInstance(models[k])[1]]
WantedCalls == [k \in 1..Len(services) |-> ServiceInstance(services[k])[1]]

BothAnchors(text) == Matches(text, MigPattern) /\ Matches(text, SvcPattern)

OutsideSegments(text) ==
    LET m == Matches(text, MigPattern)
        v == Matches(text, SvcPattern)
        mlo == RegionLo(text, MigPattern)
        mhi == RegionHi(text, MigPattern)
        vlo == RegionLo(text, SvcPattern)
        vhi == RegionHi(text, SvcPattern)
    IN  IF m /\ v
        THEN IF mlo < vlo
             THEN <<SubSeq(text, 1, mlo - 1), SubSeq(text, mhi + 1, vlo - 1),
                    SubSeq(text, vhi + 1, Len(text))>>
             ELSE <<SubSeq(text, 1, vlo - 1), SubSeq(text, vhi + 1, mlo - 1),
                    SubSeq(text, mhi + 1, Len(text))>>
        ELSE IF m THEN <<SubSeq(text, 1, mlo - 1), SubSeq(text, mhi + 1, Len(text))>>
        ELSE IF v THEN <<SubSeq(text, 1, vlo - 1), SubSeq(text, vhi + 1, Len(text))>>
        ELSE <<text>>

\* text is the segments in order with some text between each two
RECURSIVE Interleaves(_, _)
Interleaves(text, segments) ==
    IF Len(segments) = 1 THEN text = segments[1]
    ELSE /\ Len(text) >= Len(segments[1])
         /\ SubSeq(text, 1, Len(segments[1])) = segments[1]
         /\ \E x \in 0..(Len(text) - Len(segments[1])) :
              Interleaves(SubSeq(text, Len(segments[1]) + x + 1, Len(text)),
                          Tail(segments))

\* C4: every token of the text the run read that lies outside the two
\* anchor-delimited regions is in the text the run leaves, unchanged and in
\* the same order: the new text is the old outside segments with new text
\* only where the regions were.
C4_OutsidePreserved ==
    runs >= 1 => Interleaves(registry, OutsideSegments(before))

\* a run that rewrote both regions of a registry with code around them
C4_Witness ==
    /\ runs >= 1 /\ written /\ BothAnchors(before)
    /\ registry # before
    /\ "x := 1" \in Tokens(before) /\ "y := 2" \in Tokens(before)
    /\ "// tail" \in Tokens(before)

\* C5: a second run with the same discovered models and services leaves the
\* registry text the first run wrote.
C5_Idempotent ==
    runs >= 2 => registry = before

\* C6: when a pattern does not occur, the run still completes; the text
\* before and after the other pattern's region is exactly as it was, that
\* region is regenerated, and with neither pattern the text is unchanged.
C6_MissingAnchor ==
    runs >= 1 =>
        LET m == Matches(before, MigPattern)
            v == Matches(before, SvcPattern)
            tailLen(p) == Len(before) - RegionHi(before, p)
            New(p) == SubSeq(registry, RegionLo(before, p), Len(registry) - tailLen(p))
            Framed(p) ==
                /\ SubSeq(registry, 1, RegionLo(before, p) - 1)
                     = SubSeq(before, 1, RegionLo(before, p) - 1)
                /\ SubSeq(registry, Len(registry) - tailLen(p) + 1, Len(registry))
                     = SubSeq(before, RegionHi(before, p) + 1, Len(before))
        IN  /\ (~m /\ ~v) => registry = before
            /\ (~m /\ v /\ written) =>
                 /\ Framed(SvcPattern)
                 /\ ServiceCalls(New(SvcPattern)) = WantedCalls
                 /\ New(SvcPattern)[1] = SVC_START
            /\ (m /\ ~v /\ written) =>
                 /\ Framed(MigPattern)
                 /\ ModelRefs(New(MigPattern)) = WantedRefs
                 /\ MIG_START \in Tokens(New(MigPattern))
            /\ ~written => registry = before

\* the migration comment has drifted; the factory is still regenerated
C6_Witness ==
    /\ runs >= 1 /\ written
    /\ MIG_DRIFT \in Tokens(before)
    /\ ~Matches(before, MigPattern) /\ Matches(before, SvcPattern)
    /\ registry # before
    /\ MIG_DRIFT \in Tokens(registry)

(***************************************************************************)
(* SpecBatch: the __main__ block of generate_model.py.  An exception that  *)
(* nothing catches ends the process with status 1.                         *)
(***************************************************************************)
MaxSchemas == 2

SchemaNames == {"a", "b", "c"}
FileKinds   == {"ok", "unreadable", "noprops", "other"}

\* directory listings of at most n entries, names distinct
RECURSIVE Listings(_)
Listings(n) ==
    IF n = 0 THEN {<<>>}
    ELSE LET shorter == Listings(n - 1)
             Names(l) == {l[i].name : i \in 1..Len(l)}
         IN  shorter \cup
             UNION { {Append(l, [name |-> nm, file |-> k]) :
                        nm \in SchemaNames \ Names(l), k \in FileKinds} :
                     l \in {m \in shorter : Len(m) = n - 1} }

\* what open() and json.load find for schemas/<name>_schema.json
FileOf(name) ==
    IF \E i \in 1..Len(listing) : listing[i].name = name /\ listing[i].file # "other"
    THEN (CHOOSE e \in {listing[i] : i \in 1..Len(listing)} :
              e.name = name /\ e.file # "other").file
    ELSE "unreadable"

InitBatch ==
    /\ bpc = "start"
    /\ listing \in Listings(MaxSchemas)
    /\ argv \in {"all"} \cup SchemaNames
    /\ pos = 1 /\ cur = ""
    /\ \E stale \in {{}, {"old"}} :
         modelsDir = stale /\ protoDir = stale /\ servicesDir = stale
    /\ protoc = "none" /\ exitStatus = -1 /\ reconStarted = FALSE
    /\ GenIdle /\ ReconIdle /\ SvcIdle

\* if len(sys.argv) != 2: ... else: main(sys.argv[1])
BatchStart ==
    /\ bpc = "start"
    /\ IF argv = "all"
       THEN bpc' = "loop" /\ cur' = cur
       ELSE bpc' = "load" /\ cur' = argv
    /\ UNCHANGED <<argv, listing, pos, modelsDir, protoDir, servicesDir,
                   protoc, exitStatus, reconStarted>>

\* for filename in os.listdir('schemas/'): if match: main(match.group(1))
BatchLoop ==
    /\ bpc = "loop"
    /\ IF pos > Len(listing)
       THEN bpc' = "protoc" /\ pos' = pos /\ cur' = cur
       ELSE /\ pos' = pos + 1
            /\ IF listing[pos].file # "other"
               THEN bpc' = "load" /\ cur' = listing[pos].name
               ELSE bpc' = "loop" /\ cur' = cur
    /\ UNCHANGED <<argv, listing, modelsDir, protoDir, servicesDir,
                   protoc, exitStatus, reconStarted>>

\* schema = load_schema(schema_name)
BatchLoad ==
    /\ bpc = "load"
    /\ IF FileOf(cur) = "unreadable"
       THEN bpc' = "exit" /\ exitStatus' = 1
       ELSE bpc' = "go" /\ exitStatus' = exitStatus
    /\ UNCHANGED <<argv, listing, pos, cur, modelsDir, protoDir, servicesDir,
                   protoc, reconStarted>>

\* generate_go_model(schema_name, schema): schema["properties"] raises
\* before anything is written
BatchGoModel ==
    /\ bpc = "go"
    /\ IF FileOf(cur) = "noprops"
       THEN bpc' = "exit" /\ exitStatus' = 1 /\ modelsDir' = modelsDir
       ELSE bpc' = "proto" /\ exitStatus' = exitStatus
            /\ modelsDir' = modelsDir \cup {cur}
    /\ UNCHANGED <<argv, listing, pos, cur, protoDir, servicesDir,
                   protoc, reconStarted>>

\* generate_proto_file(schema_name, schema)
BatchProtoFile ==
    /\ bpc = "proto"
    /\ protoDir' = protoDir \cup {cur}
    /\ bpc' = "service"
    /\ UNCHANGED <<argv, listing, pos, cur, modelsDir, servicesDir,
                   protoc, exitStatus, reconStarted>>

\* generate_service_impl(schema_name, schema), and main() returns
BatchServiceImpl ==
    /\ bpc = "service"
    /\ servicesDir' = servicesDir \cup {cur}
    /\ bpc' = (IF argv = "all" THEN "loop" ELSE "protoc")
    /\ cur' = ""
    /\ UNCHANGED <<argv, listing, pos, modelsDir, protoDir,
                   protoc, exitStatus, reconStarted>>

\* the protoc step that reports a failure and goes on
BatchProtocLenient ==
    /\ bpc = "protoc"
    /\ IF protoDir = {}
       THEN protoc' = "nofiles" /\ bpc' = "exit" /\ exitStatus' = 1
       ELSE \E result \in {"ok", "failed"} :
              /\ protoc' = result
              /\ bpc' = "recon" /\ exitStatus' = exitStatus
    /\ UNCHANGED <<argv, listing, pos, cur, modelsDir, protoDir, servicesDir,
                   reconStarted>>

\* glob proto/*.proto, then subprocess.run(["protoc", ...], check=True):
\* sys.exit(1) without files or on CalledProcessError
BatchProtoc ==
    /\ bpc = "protoc"
    /\ IF protoDir = {}
       THEN protoc' = "nofiles" /\ bpc' = "exit" /\ exitStatus' = 1
       ELSE \E result \in {"ok", "failed"} :
              /\ protoc' = result
              /\ IF result = "ok"
                 THEN bpc' = "recon" /\ exitStatus' = exitStatus
                 ELSE bpc' = "exit" /\ exitStatus' = 1
    /\ UNCHANGED <<argv, listing, pos, cur, modelsDir, protoDir, servicesDir,
                   reconStarted>>

\* subprocess.run(["python", "update_main_file.py"], check=True); its
\* failure is printed and the script ends normally
BatchReconcile ==
    /\ bpc = "recon"
    /\ reconStarted' = TRUE
    /\ bpc' = "exit" /\ exitStatus' = 0
    /\ UNCHANGED <<argv, listing, pos, cur, modelsDir, protoDir, servicesDir,
                   protoc>>

NextBatch ==
    \/ BatchStart /\ UNCHANGED <<genVars, reconVars, svcVars>>
    \/ BatchLoop /\ UNCHANGED <<genVars, reconVars, svcVars>>
    \/ BatchLoad /\ UNCHANGED <<genVars, reconVars, svcVars>>
    \/ BatchGoModel /\ UNCHANGED <<genVars, reconVars, svcVars>>
    \/ BatchProtoFile /\ UNCHANGED <<genVars, reconVars, svcVars>>
    \/ BatchServiceImpl /\ UNCHANGED <<genVars, reconVars, svcVars>>
    \/ BatchProtoc /\ UNCHANGED <<genVars, reconVars, svcVars>>
    \/ BatchReconcile /\ UNCHANGED <<genVars, reconVars, svcVars>>

SpecBatch == InitBatch /\ [][NextBatch]_vars

(***************************************************************************)
(* Properties of SpecBatch                                                 *)
(***************************************************************************)
\* the schemas of the run: every schema file of the directory, or the one
\* named on the command line
BatchSchemas ==
    IF argv = "all"
    THEN {listing[i].name : i \in {k \in 1..Len(listing) : listing[k].file # "other"}}
    ELSE {argv}

Emitted(name) == name \in modelsDir /\ name \in protoDir /\ name \in servicesDir

\* C7: reconciliation is started only once every schema of the batch has
\* its three artifacts and protoc has returned successfully; a run that
\* found no contract artifact or whose protoc failed ends with a non-zero
\* status without having started reconciliation.
C7_ReconcilerIsBarrier ==
    /\ reconStarted =>
         /\ protoc = "ok"
         /\ \A n \in BatchSchemas : Emitted(n)
    /\ (bpc = "recon") =>
         /\ protoc = "ok"
         /\ \A n \in BatchSchemas : Emitted(n)
    /\ (bpc = "exit" /\ protoc \in {"nofiles", "failed"}) =>
         exitStatus # 0 /\ ~reconStarted

\* a batch of two schemas, both emitted, then protoc, then reconciliation
C7_Witness ==
    /\ reconStarted /\ bpc = "exit" /\ exitStatus = 0
    /\ argv = "all" /\ Cardinality(BatchSchemas) = 2
    /\ \A n \in BatchSchemas : Emitted(n)

\* C8: when the batch run is over, every schema of the batch whose file
\* loads has its three artifacts, whichever schemas failed to load and
\* wherever they stood in the processing order.
C8_OtherSchemasGenerated ==
    (/\ bpc = "exit" /\ argv = "all"
     /\ \A n \in BatchSchemas : FileOf(n) \in {"ok", "unreadable"}) =>
        \A n \in BatchSchemas : FileOf(n) = "ok" => Emitted(n)

(***************************************************************************)
(* SpecSvc: the service generate_service_impl emits for one schema, run    *)
(* against its collaborators.  s.orm and utils are not part of the         *)
(* generator: every call to them may fail, and a lookup of a key the cache *)
(* does not hold either fails or leaves the zero record.                   *)
(***************************************************************************)
MaxId == 2
CacheTTLMinutes == 10

Ids      == 1..MaxId
Versions == {1, 2}
ServiceSchemas == {"product", "article"}

\* fmt.Sprintf("{schema_name}:%d", uint(req.Id)) in Get
GetCacheKey(schema_name, id) == <<schema_name, id>>
\* fmt.Sprintf("{schema_name}:%d", uint(req.{model_name}.ID)) in Update
UpdateCacheKey(schema_name, id) == <<schema_name, id>>
\* fmt.Sprintf("product:%d", uint(req.Id)) in Delete
DeleteCacheKey(schema_name, id) == <<"product", id>>

CacheKeys == {<<p, i>> : p \in ServiceSchemas, i \in Ids}
NoEntry   == [present |-> FALSE, id |-> 0, ver |-> 0, ttl |-> 0]
Entry(id, ver) == [present |-> TRUE, id |-> id, ver |-> ver, ttl |-> CacheTTLMinutes]

\* s.orm.GetCache(cacheKey, &x): "err" when the call fails, "zero" when it
\* returns with x.ID == 0, "hit" otherwise
Lookup(entry, cacheErr, missAs) ==
    IF cacheErr THEN "err"
    ELSE IF ~entry.present THEN missAs
    ELSE IF entry.id = 0 THEN "zero" ELSE "hit"

\* the test without its second half
NeedsReadOnErrorOnly(lookup) == lookup = "err"

\* if err != nil || x.ID == 0
NeedsRead(lookup) == lookup = "err" \/ lookup = "zero"

InitSvc ==
    /\ svcSchema \in ServiceSchemas
    /\ db = [i \in Ids |-> 0]
    /\ cache = [k \in CacheKeys |-> NoEntry]
    /\ last = [op |-> "none"]
    /\ GenIdle /\ BatchIdle /\ ReconIdle

\* Create<Model>: s.orm.Create, the cache is not touched
SvcCreate ==
    \E id \in Ids, v \in Versions, dbErr \in BOOLEAN :
        /\ db[id] = 0
        /\ db' = IF dbErr THEN db ELSE [db EXCEPT ![id] = v]
        /\ cache' = cache
        /\ last' = [op |-> "create", id |-> id,
                    result |-> IF dbErr THEN "error" ELSE "ok"]
        /\ UNCHANGED svcSchema

\* Get<Model>
SvcGet ==
    \E id \in Ids, cacheErr \in BOOLEAN, missAs \in {"err", "zero"},
       dbErr \in BOOLEAN, setErr \in BOOLEAN :
        LET cacheKey == GetCacheKey(svcSchema, id)
            lookup   == Lookup(cache[cacheKey], cacheErr, missAs)
            read     == NeedsRead(lookup)
            readOk   == read /\ ~dbErr /\ db[id] # 0
            fromDb   == readOk
            setCache == fromDb
        IN  /\ cache' = IF setCache /\ ~setErr
                        THEN [cache EXCEPT ![cacheKey] = Entry(id, db[id])]
                        ELSE cache
            /\ last' = [op       |-> "get", id |-> id,
                        lookup   |-> lookup,
                        read     |-> read,
                        readOk   |-> readOk,
                        setCache |-> setCache,
                        setOk    |-> setCache /\ ~setErr,
                        changed  |-> cache' # cache,
                        result   |-> IF read /\ ~readOk THEN "error" ELSE "ok",
                        ver      |-> IF read
                                     THEN (IF readOk THEN db[id] ELSE 0)
                                     ELSE cache[cacheKey].ver]
            /\ UNCHANGED <<svcSchema, db>>

\* Update<Model>: s.orm.Update, then the cache entry is refreshed
SvcUpdate ==
    \E id \in Ids, v \in Versions, dbErr \in BOOLEAN, setErr \in BOOLEAN :
        LET ok == ~dbErr /\ db[id] # 0
        IN  /\ db' = IF ok THEN [db EXCEPT ![id] = v] ELSE db
            /\ cache' = IF ok /\ ~setErr
                        THEN [cache EXCEPT ![UpdateCacheKey(svcSchema, id)] = Entry(id, v)]
                        ELSE cache
            /\ last' = [op |-> "update", id |-> id,
                        result |-> IF ok THEN "ok" ELSE "error"]
            /\ UNCHANGED svcSchema

\* Delete<Model>: s.orm.Delete, then s.orm.DeleteCache
SvcDelete ==
    \E id \in Ids, dbErr \in BOOLEAN, delErr \in BOOLEAN :
        /\ db' = IF dbErr THEN db ELSE [db EXCEPT ![id] = 0]
        /\ cache' = IF ~dbErr /\ ~delErr
                    THEN [cache EXCEPT ![DeleteCacheKey(svcSchema, id)] = NoEntry]
                    ELSE cache
        /\ last' = [op |-> "delete", id |-> id,
                    cacheOk |-> ~delErr,
                    result |-> IF dbErr THEN "error" ELSE "ok"]
        /\ UNCHANGED svcSchema

\* an entry reaches the end of its 10 minutes
SvcExpire ==
    \E k \in CacheKeys :
        /\ cache[k].present
        /\ cache' = [cache EXCEPT ![k] = NoEntry]
        /\ last' = [op |-> "expire"]
        /\ UNCHANGED <<svcSchema, db>>

NextSvc ==
    \/ SvcCreate /\ UNCHANGED <<genVars, batchVars, reconVars>>
    \/ SvcGet /\ UNCHANGED <<genVars, batchVars, reconVars>>
    \/ SvcUpdate /\ UNCHANGED <<genVars, batchVars, reconVars>>
    \/ SvcDelete /\ UNCHANGED <<genVars, batchVars, reconVars>>
    \/ SvcExpire /\ UNCHANGED <<genVars, batchVars, reconVars>>

SpecSvc == InitSvc /\ [][NextSvc]_vars

(***************************************************************************)
(* Properties of SpecSvc                                                   *)
(***************************************************************************)
\* C9: after a Delete(id) that succeeded in persistence (and whose cache
\* call did not fail), the cache holds no entry under the key Get and
\* Update use for that record.
C9_DeleteInvalidates ==
    (last.op = "delete" /\ last.result = "ok" /\ last.cacheOk) =>
        ~cache[GetCacheKey(svcSchema, last.id)].present

\* C10: Get reads persistence exactly when the lookup fails or returns a
\* record with a zero primary key; it writes the cache, with the 10-minute
\* expiry, only after a successful read and never on a hit; a failed read
\* returns the error and leaves the cache as it was; and the result is the
\* same whether the cache write succeeded or not.
C10_GetReadThrough ==
    last.op = "get" =>
        /\ last.read <=> (last.lookup \in {"err", "zero"})
        /\ last.setCache => (last.read /\ last.readOk)
        /\ last.changed => (last.setCache /\ last.setOk)
        /\ last.lookup = "hit" => (~last.setCache /\ ~last.changed /\ last.result = "ok")
        /\ (last.read /\ ~last.readOk) =>
             (last.result = "error" /\ ~last.setCache /\ ~last.changed)
        /\ (last.read /\ last.readOk) =>
             (last.result = "ok" /\ last.ver = db[last.id])
        /\ last.setOk =>
             cache[GetCacheKey(svcSchema, last.id)] = Entry(last.id, db[last.id])
        /\ \A k \in CacheKeys : cache[k].present => cache[k].ttl = 10

\* a Get that found a zero record, read persistence, failed to write the
\* cache and still returned the row
C10_Witness ==
    /\ last.op = "get" /\ last.lookup = "zero"
    /\ last.read /\ last.readOk /\ last.setCache /\ ~last.setOk
    /\ last.result = "ok" /\ last.ver = 2

====
